---- MODULE Spec2Model ----
(***************************************************************************)
(* Model of tools/generate_hole_normal.py: generate_normal_map builds a    *)
(* size x size RGBA canvas whose pixels encode the surface normal of a     *)
(* circular groove, perturbed by noise.                                    *)
(*                                                                         *)
(* Python floats are modelled as fixed-point integers: the real v is the   *)
(* integer v * SCALE, and every arithmetic operation rounds its exact      *)
(* result to the nearest representable value, as IEEE arithmetic does at   *)
(* its own (finer) resolution.  int() truncates, as in Python.  At this    *)
(* resolution a channel can differ by one from the float computation where *)
(* the exact value lies within 1/SCALE of an integer step.                 *)
(***************************************************************************)
EXTENDS Integers, FiniteSets, Sequences, TLC

VARIABLES
  size, strength, noise_scale,  \* the arguments of the call
  pc,                           \* where the call is: "loop", "done", "error", ...
  x, y,                         \* the loop variables
  v,                            \* the locals vx, vy, vz as the last iteration left them
  img,                          \* the canvas: (x, y) -> (r, g, b, a)
  writes,                       \* how many times px[x, y] = ... ran for each cell
  first,                        \* the canvas an earlier call returned, if any
  par, wpos,                    \* the canvas and the workers of the partitioned loop
  probe                         \* the intermediate values of one pixel

vars == <<size, strength, noise_scale, pc, x, y, v, img, writes, first, par, wpos, probe>>

(***************************************************************************)
(* Bounds of the model.                                                    *)
(***************************************************************************)
\* canvases of 1 .. MaxSize pixels a side are generated
MaxSize == 7
\* noise draws are enumerated on whole canvases of at most this many pixels
MaxNoisyPixels == 4
\* the per-pixel function is also applied on the centre row of this canvas,
\* the smallest one with a pixel at distance exactly 1 from the centre
BoundarySize == 41
\* workers of the partitioned loop, and the largest canvas they fill
NumWorkers == 2
MaxParSize == 5

(***************************************************************************)
(* Fixed-point arithmetic standing for Python's float.                     *)
(***************************************************************************)
SCALE == 10000

Half == SCALE \div 2

Abs(n) == IF n < 0 THEN -n ELSE n

Min(a, b) == IF a < b THEN a ELSE b

Max(a, b) == IF a > b THEN a ELSE b

\* n / d rounded to the nearest integer, ties away from zero; d > 0
RDiv(n, d) ==
  LET m == Abs(n)
      q == (m \div d) + (IF 2 * (m % d) >= d THEN 1 ELSE 0)
  IN  IF n < 0 THEN -q ELSE q

RECURSIVE SqrtIter(_, _)
SqrtIter(n, g) ==
  LET h == (g + (n \div g)) \div 2
  IN  IF h >= g THEN g ELSE SqrtIter(n, h)

\* floor of the square root of n >= 0 (Newton's iteration from above)
ISqrt(n) == IF n = 0 THEN 0 ELSE SqrtIter(n, Min(n, 46340))

\* square root of n >= 0 rounded to the nearest integer
SqrtNear(n) ==
  LET s == ISqrt(n)
  IN  IF n - s * s > s THEN s + 1 ELSE s

\* a * b
FMul(a, b) == RDiv(a * b, SCALE)

\* a / b, b > 0
FDiv(a, b) == RDiv(a * SCALE, b)

\* math.sqrt(a)
FSqrt(a) == SqrtNear(a * SCALE)

\* the 1e-6 of the two length tests, at the model's resolution
Eps == SCALE \div 1000000

(***************************************************************************)
(* generate_normal_map: the per-canvas constants.                          *)
(***************************************************************************)
\* cx = (w - 1) / 2.0, cy = (h - 1) / 2.0 with w = h = size
Center(n) == ((n - 1) * SCALE) \div 2

\* radius = min(cx, cy) * 0.95
Radius(n) == (Min(Center(n), Center(n)) * 95) \div 100

(***************************************************************************)
(* generate_normal_map: the body of the loop.                              *)
(***************************************************************************)
\* dx = (x - cx) / radius, dy = (y - cy) / radius
Coord(n, i) == FDiv(i * SCALE - Center(n), Radius(n))

\* dist2 = dx*dx + dy*dy
Dist2(dx, dy) == RDiv(dx * dx + dy * dy, SCALE)

KNoClamp(s) == s

\* k = max(0.0, min(1.0, strength))
Clamp(s) == Max(0, Min(SCALE, s))

\* math.pow(dist2, p) with p = 1.5
Pow15(d) == FMul(d, FSqrt(d))

\* inner = max(0.0, 1.0 - math.pow(dist2, p) * k)
Inner(dist2, k) == Max(0, SCALE - FMul(Pow15(dist2), k))

\* math.sqrt(vx*vx + vy*vy + vz*vz)
Length(u) == SqrtNear(u.x * u.x + u.y * u.y + u.z * u.z)

\* vx /= vlen; vy /= vlen; vz /= vlen
Scaled(u, len) == [x |-> FDiv(u.x, len), y |-> FDiv(u.y, len), z |-> FDiv(u.z, len)]

NormalizeAboveOne(u) ==
  LET len == Length(u)
  IN  IF len > SCALE THEN Scaled(u, len) ELSE u

\* if vlen > 1e-6: normalize
Normalize(u) ==
  LET len == Length(u)
  IN  IF len > Eps THEN Scaled(u, len) ELSE u

\* (vx, vy, vz) = (dx * k, dy * k, dz) with dz = math.sqrt(inner)
Raw(dx, dy, dist2, k) == [x |-> FMul(dx, k), y |-> FMul(dy, k), z |-> FSqrt(Inner(dist2, k))]

Flat == [x |-> 0, y |-> 0, z |-> SCALE]

InsideWide(dist2) == dist2 <= 2 * SCALE

\* dist2 <= 1.0
Inside(dist2) == dist2 <= SCALE

PreNoiseCarry(prev, n, s, i, j) ==
  LET dx == Coord(n, i)
      dy == Coord(n, j)
      dist2 == Dist2(dx, dy)
  IN  IF Inside(dist2) THEN Normalize(Raw(dx, dy, dist2, Clamp(s))) ELSE prev

\* (vx, vy, vz) before the noise: the groove inside the disc, (0, 0, 1) outside.
\* prev holds the locals vx, vy, vz as the previous iteration left them: both
\* branches assign all three, so the code never reads them.
PreNoise(prev, n, s, i, j) ==
  LET dx == Coord(n, i)
      dy == Coord(n, j)
      dist2 == Dist2(dx, dy)
  IN  IF Inside(dist2) THEN Normalize(Raw(dx, dy, dist2, Clamp(s))) ELSE Flat

NoiseUnscaled(r, ns) == r - Half

\* (random.random() - 0.5) * noise_scale
Noise(r, ns) == FMul(r - Half, ns)

\* nx = vx + noise, ny = vy + noise, nz = vz, then the second normalization
PostNoise(u, ns, r1, r2) ==
  Normalize([x |-> u.x + Noise(r1, ns), y |-> u.y + Noise(r2, ns), z |-> u.z])

\* int(q) for q = num / den, den > 0: truncation towards zero
Trunc(num, den) == IF num >= 0 THEN num \div den ELSE -((-num) \div den)

\* round-to-nearest of num / den, for comparison with int()
Round(num, den) == RDiv(num, den)

ChannelRounded(c) == Round((c + SCALE) * 255, 2 * SCALE)

ChannelTimes256(c) == Trunc((c + SCALE) * 256, 2 * SCALE)

\* int((c * 0.5 + 0.5) * 255)
Channel(c) == Trunc((c + SCALE) * 255, 2 * SCALE)

\* (r, g, b, a)
Encode(n) == <<Channel(n.x), Channel(n.y), Channel(n.z), 255>>

\* the RGBA stored at (i, j), with r1 and r2 the two values random.random() returns
PixelRGBA(prev, n, s, ns, i, j, r1, r2) ==
  Encode(PostNoise(PreNoise(prev, n, s, i, j), ns, r1, r2))

(***************************************************************************)
(* Inputs.                                                                 *)
(***************************************************************************)
Sizes == 1 .. MaxSize

\* strength: below 0, 0, inside (0, 1), 1, above 1
Strengths == {-Half, 0, Half, (7 * SCALE) \div 10, SCALE, SCALE + Half}

\* noise_scale: none, the default 0.02, a negative one, and 2.0
NoiseScales == {0, SCALE \div 50, -(SCALE \div 50), 2 * SCALE}

\* values random.random() returns, in [0, 1): the least and the greatest
Rand == {0, SCALE - 1}

\* the same with 0.5, the draw that adds no noise
RandPixel == Rand \cup {Half}

Cells(n) == (0 .. n - 1) \X (0 .. n - 1)

\* Image.new('RGBA', (w, h)): every pixel (0, 0, 0, 0)
NewImage(n) == [c \in Cells(n) |-> <<0, 0, 0, 0>>]

NoCanvas == [c \in {} |-> <<0, 0, 0, 0>>]

\* vx, vy, vz before the first iteration assigns them
Unbound == [x |-> 0, y |-> 0, z |-> 0]

(***************************************************************************)
(* generate_normal_map as a state machine: one Step per iteration of the   *)
(* inner loop.                                                             *)
(***************************************************************************)
Enter ==
  /\ pc = "loop"
  /\ x = 0
  /\ y = 0
  /\ v = Unbound
  /\ img = NewImage(size)
  /\ writes = [c \in Cells(size) |-> 0]

Idle ==
  /\ first = NoCanvas
  /\ par = NoCanvas
  /\ wpos = <<>>
  /\ probe = <<>>

Init ==
  /\ size \in Sizes
  /\ strength \in Strengths
  /\ noise_scale \in NoiseScales
  /\ (noise_scale = 0 \/ size * size <= MaxNoisyPixels)
  /\ Enter
  /\ Idle

CursorSkipsLastColumn(n, i, j) == IF i + 2 >= n THEN <<0, j + 1>> ELSE <<i + 1, j>>

\* for y in range(h): for x in range(w): the cell after (i, j)
NextCursor(n, i, j) == IF i + 1 = n THEN <<0, j + 1>> ELSE <<i + 1, j>>

\* one iteration of the inner loop, lines 20-59
Step ==
  /\ pc = "loop"
  /\ y < size
  /\ Radius(size) > 0
  /\ \E r1 \in Rand, r2 \in Rand :
        img' = [img EXCEPT ![<<x, y>>] =
                  PixelRGBA(v, size, strength, noise_scale, x, y, r1, r2)]
  /\ v' = PreNoise(v, size, strength, x, y)
  /\ writes' = [writes EXCEPT ![<<x, y>>] = @ + 1]
  /\ x' = NextCursor(size, x, y)[1]
  /\ y' = NextCursor(size, x, y)[2]
  /\ UNCHANGED <<size, strength, noise_scale, pc, first, par, wpos, probe>>

\* dx = (x - cx) / radius with radius = 0.0: ZeroDivisionError
Raise ==
  /\ pc = "loop"
  /\ y < size
  /\ Radius(size) = 0
  /\ pc' = "error"
  /\ UNCHANGED <<size, strength, noise_scale, x, y, v, img, writes, first, par, wpos, probe>>

\* return img
Return ==
  /\ pc = "loop"
  /\ y = size
  /\ pc' = "done"
  /\ UNCHANGED <<size, strength, noise_scale, x, y, v, img, writes, first, par, wpos, probe>>

Next == Step \/ Raise \/ Return

Spec == Init /\ [][Next]_vars

(***************************************************************************)
(* Two calls with the same arguments, one after the other, noise disabled. *)
(***************************************************************************)
InitQuiet ==
  /\ size \in Sizes
  /\ strength \in Strengths
  /\ noise_scale = 0
  /\ Enter
  /\ Idle

\* the caller keeps the returned canvas and calls again
CallAgain ==
  /\ pc = "done"
  /\ first = NoCanvas
  /\ first' = img
  /\ pc' = "loop"
  /\ x' = 0
  /\ y' = 0
  /\ v' = Unbound
  /\ img' = NewImage(size)
  /\ writes' = [c \in Cells(size) |-> 0]
  /\ UNCHANGED <<size, strength, noise_scale, par, wpos, probe>>

NextTwice == Step \/ Raise \/ Return \/ CallAgain

SpecTwice == InitQuiet /\ [][NextTwice]_vars

(***************************************************************************)
(* The loop partitioned by row across workers: after the sequential call   *)
(* has returned, worker w computes the rows j with j % NumWorkers = w into *)
(* a second canvas, each worker with locals and noise draws of its own,    *)
(* the workers interleaved in any way.                                     *)
(***************************************************************************)
Workers == 0 .. NumWorkers - 1

\* the number of cells worker w owns
Owned(w, n) == IF w < n THEN (((n - 1 - w) \div NumWorkers) + 1) * n ELSE 0

\* the i-th cell of worker w, its rows taken in order
WorkerCell(w, n, i) == <<i % n, w + NumWorkers * (i \div n)>>

Fork ==
  /\ pc = "done"
  /\ pc' = "par"
  /\ par' = NewImage(size)
  /\ wpos' = [w \in Workers |-> [i |-> 0, v |-> Unbound]]
  /\ UNCHANGED <<size, strength, noise_scale, x, y, v, img, writes, first, probe>>

WorkerStep(w) ==
  /\ pc = "par"
  /\ wpos[w].i < Owned(w, size)
  /\ LET c == WorkerCell(w, size, wpos[w].i)
     IN  /\ \E r1 \in Rand, r2 \in Rand :
               par' = [par EXCEPT ![c] =
                         PixelRGBA(wpos[w].v, size, strength, noise_scale, c[1], c[2], r1, r2)]
         /\ wpos' = [wpos EXCEPT ![w] =
                       [i |-> @.i + 1, v |-> PreNoise(@.v, size, strength, c[1], c[2])]]
  /\ UNCHANGED <<size, strength, noise_scale, pc, x, y, v, img, writes, first, probe>>

Join ==
  /\ pc = "par"
  /\ \A w \in Workers : wpos[w].i = Owned(w, size)
  /\ pc' = "joined"
  /\ UNCHANGED <<size, strength, noise_scale, x, y, v, img, writes, first, par, wpos, probe>>

NextPar == Step \/ Raise \/ Return \/ Fork \/ (\E w \in Workers : WorkerStep(w)) \/ Join

InitPar ==
  /\ InitQuiet
  /\ size <= MaxParSize

SpecPar == InitPar /\ [][NextPar]_vars

(***************************************************************************)
(* The body of the loop as a function: one pixel of one call, with every   *)
(* intermediate value kept.                                                *)
(***************************************************************************)
\* canvases on which a pixel is computed at all (radius > 0)
PixelSizes == {n \in Sizes \cup {BoundarySize} : Radius(n) > 0}

\* every cell of the small canvases, the centre row of the large one
PixelCells(n) == IF n <= MaxSize THEN Cells(n) ELSE {c \in Cells(n) : 2 * c[2] = n - 1}

\* lines 20-59 for the cell (i, j), r1 and r2 the two values random.random() returns
Pixel(prev, n, s, ns, i, j, r1, r2) ==
  LET dx == Coord(n, i)
      dy == Coord(n, j)
      dist2 == Dist2(dx, dy)
      raw == Raw(dx, dy, dist2, Clamp(s))
      pre == PreNoise(prev, n, s, i, j)
      post == PostNoise(pre, ns, r1, r2)
  IN  [dist2 |-> dist2,
       vlen |-> IF Inside(dist2) THEN Length(raw) ELSE SCALE,
       pre |-> pre,
       sum |-> [x |-> pre.x + Noise(r1, ns), y |-> pre.y + Noise(r2, ns), z |-> pre.z],
       n |-> post,
       rgba |-> PixelRGBA(prev, n, s, ns, i, j, r1, r2),
       r1 |-> r1,
       r2 |-> r2]

InitPixel ==
  /\ size \in PixelSizes
  /\ strength \in Strengths
  /\ noise_scale \in NoiseScales
  /\ \E c \in PixelCells(size) : x = c[1] /\ y = c[2]
  /\ pc = "pixel"
  /\ v = Unbound
  /\ img = NoCanvas
  /\ writes = NoCanvas
  /\ Idle

Compute ==
  /\ pc = "pixel"
  /\ \E r1 \in RandPixel, r2 \in RandPixel :
        probe' = Pixel(v, size, strength, noise_scale, x, y, r1, r2)
  /\ pc' = "stored"
  /\ UNCHANGED <<size, strength, noise_scale, x, y, v, img, writes, first, par, wpos>>

NextPixel == Compute

SpecPixel == InitPixel /\ [][NextPixel]_vars

(***************************************************************************)
(* Properties.                                                             *)
(***************************************************************************)
Stored == pc = "stored"

\* 255^2 times the squared magnitude of the vector decoded from (r, g, b) by
\* c = (channel / 255) * 2 - 1
DecodedSquare(rgba) ==
  (2 * rgba[1] - 255) * (2 * rgba[1] - 255)
    + (2 * rgba[2] - 255) * (2 * rgba[2] - 255)
    + (2 * rgba[3] - 255) * (2 * rgba[3] - 255)

\* the decoded magnitude is within t / SCALE of 1.0
DecodedWithin(rgba, t) ==
  LET lo == ((SCALE - t) * 255) \div 100
      hi == ((SCALE + t) * 255) \div 100
      sq == DecodedSquare(rgba) * (SCALE \div 100) * (SCALE \div 100)
  IN  lo * lo <= sq /\ sq <= hi * hi

\* C1 as stated: with noise_scale = 0, every pixel whose pre-noise vector is
\* longer than 1e-6 decodes to a vector whose magnitude is within 0.01 of 1.0.
C1_DecodedWithinHundredth ==
  (Stored /\ noise_scale = 0 /\ Length(probe.pre) > Eps)
    => DecodedWithin(probe.rgba, SCALE \div 100)

\* C1 amended: with noise_scale = 0, every pixel whose pre-noise vector is
\* longer than 1e-6 decodes to a vector whose magnitude is within 0.014 of 1.0
\* (int() truncates each channel, losing up to 2/255 per component).
C1_DecodedWithinTruncation ==
  (Stored /\ noise_scale = 0 /\ Length(probe.pre) > Eps)
    => DecodedWithin(probe.rgba, (14 * SCALE) \div 1000)

\* a tilted pixel inside the disc, stored without noise
C1_Witness ==
  /\ Stored
  /\ noise_scale = 0
  /\ Inside(probe.dist2)
  /\ probe.pre.x > 0
  /\ probe.pre.y > 0
  /\ Length(probe.pre) > Eps

\* C2: the returned canvas is size x size, every cell has been written exactly
\* once by the loop, and every alpha is 255.
C2_CanvasComplete ==
  pc = "done" =>
    /\ DOMAIN img = Cells(size)
    /\ Cardinality(DOMAIN img) = size * size
    /\ \A c \in Cells(size) : writes[c] = 1 /\ img[c][4] = 255

\* a canvas with pixels inside the disc has been returned
C2_Witness == pc = "done" /\ size >= 5 /\ x = 0 /\ y = size

\* C3: for every size >= 1, every strength and every noise_scale the call
\* completes without raising; the division by the radius never fails.
C3_NeverRaises == pc # "error"

\* C4 as stated: each stored channel is the round-to-nearest integer of
\* (c * 0.5 + 0.5) * 255, c the component of the final vector.
C4_ChannelsRounded ==
  Stored =>
    /\ probe.rgba[1] = ChannelRounded(probe.n.x)
    /\ probe.rgba[2] = ChannelRounded(probe.n.y)
    /\ probe.rgba[3] = ChannelRounded(probe.n.z)

\* q is the integer part of (c * 0.5 + 0.5) * 255 >= 0
IsIntegerPart(q, c) ==
  /\ q * 2 * SCALE <= (c + SCALE) * 255
  /\ (c + SCALE) * 255 < (q + 1) * 2 * SCALE

\* C4 amended: each stored channel is the integer part (the truncation, not
\* the rounding) of (c * 0.5 + 0.5) * 255: R from nx, G from ny, B from nz.
C4_ChannelsTruncated ==
  Stored =>
    /\ IsIntegerPart(probe.rgba[1], probe.n.x)
    /\ IsIntegerPart(probe.rgba[2], probe.n.y)
    /\ IsIntegerPart(probe.rgba[3], probe.n.z)

\* a stored channel one below the rounded value
C4_Witness ==
  /\ Stored
  /\ probe.rgba[1] + 1 = ChannelRounded(probe.n.x)
  /\ Inside(probe.dist2)

\* C5: every stored R, G and B lies in 0 .. 255, for every noise_scale and
\* also where the final normalization is skipped.
C5_ChannelsAreBytes ==
  Stored => \A i \in 1 .. 3 : probe.rgba[i] \in 0 .. 255

\* large noise cancels the pre-noise vector and the final normalization is skipped
C5_Witness ==
  /\ Stored
  /\ noise_scale = 2 * SCALE
  /\ Length(probe.pre) > Eps
  /\ Length(probe.sum) <= Eps

\* C6: the strength is clamped to [0, 1] before any use: with noise_scale = 0
\* the pixel for strength s is the pixel for min(1, max(0, s)).
C6_StrengthClamped ==
  (Stored /\ noise_scale = 0) =>
    LET k == IF strength < 0 THEN 0 ELSE IF strength > SCALE THEN SCALE ELSE strength
    IN  probe.rgba = PixelRGBA(v, size, k, noise_scale, x, y, probe.r1, probe.r2)

\* a tilted pixel stored for a strength above 1
C6_Witness ==
  /\ Stored
  /\ noise_scale = 0
  /\ strength > SCALE
  /\ Inside(probe.dist2)
  /\ probe.pre.x # 0

\* C7: with noise_scale = 0 every pixel with dist2 > 1.0 is stored as the flat
\* normal: R and G in {127, 128}, B = 255, A = 255, whatever the strength.
C7_OutsideFlat ==
  (Stored /\ noise_scale = 0 /\ probe.dist2 > SCALE) =>
    /\ probe.rgba[1] \in {127, 128}
    /\ probe.rgba[2] \in {127, 128}
    /\ probe.rgba[3] = 255
    /\ probe.rgba[4] = 255

\* a pixel just outside the disc, stored for full strength
C7_Witness ==
  /\ Stored
  /\ noise_scale = 0
  /\ strength = SCALE
  /\ probe.dist2 > SCALE
  /\ probe.dist2 <= 2 * SCALE

\* C8: with noise_scale = 0, a second call with the same size and strength
\* stores in every cell what the first call returned there, whatever the
\* random source returns in either call.
C8_SecondCallIdentical ==
  /\ DOMAIN first # {} => \A c \in Cells(size) : writes[c] = 1 => img[c] = first[c]
  /\ (DOMAIN first # {} /\ pc = "done") => img = first

\* the second call has returned a canvas with pixels inside the disc
C8_Witness == DOMAIN first # {} /\ pc = "done" /\ size >= 5

\* the cells worker w has written
Done(w) == {WorkerCell(w, size, i) : i \in 0 .. wpos[w].i - 1}

\* C9: with noise_scale = 0, the workers, interleaved in any way and each
\* writing its own cells once, store in every cell what the sequential
\* row-major loop stored there.
C9_OrderIndependent ==
  /\ pc \in {"par", "joined"} => \A w \in Workers : \A c \in Done(w) : par[c] = img[c]
  /\ pc = "joined" => par = img

\* the workers have filled a canvas with pixels inside the disc
C9_Witness == pc = "joined" /\ size >= 5

\* C10: the raw vector of every pixel inside the disc is longer than 1e-6
\* (longer than 0.5, in fact), so the first normalization always runs, and
\* the pre-noise vector of every pixel has unit length and z >= 0.
C10_PreNoiseIsUnit ==
  Stored =>
    /\ Inside(probe.dist2) => (probe.vlen > Eps /\ 2 * probe.vlen > SCALE)
    /\ Length(probe.pre) - SCALE \in -2 .. 2
    /\ probe.pre.z >= 0

\* an inside pixel whose raw vector is shorter than 1 and has been normalized
C10_Witness ==
  /\ Stored
  /\ Inside(probe.dist2)
  /\ probe.vlen < SCALE
  /\ probe.pre.x # 0

====
